---- MODULE Spec2Model ----
(***************************************************************************)
(* Model of smart-zoneminder's two identity resolvers:                     *)
(*   face-det-rec/face_det_rec.py          (embedding path, one-shot run)   *)
(*   person-class/person_classifier_server.py  (classifier path, zerorpc)  *)
(***************************************************************************)
EXTENDS Integers, Sequences, FiniteSets, TLC

VARIABLES
    data,       \* data['names']: the gallery labels, one per known embedding
    rMatches,   \* resolver harness: the compare_faces result under test
    rOutcome,   \* resolver harness: the outcome computed for rMatches
    path,       \* which program runs: "emb" (face_det_rec.py) or "cls" (detect_faces)
    objects_detected,   \* the batch as the caller supplied it
    pc,         \* "loop" (outer for), "labels" (inner for), "done", "crashed"
    i,          \* index of the image record under the outer loop
    li,         \* index of the label under the inner loop
    json_obj,   \* the image record being annotated (obj on the classifier path)
    out,        \* objects_detected_faces / objects_classified_persons
    stdout,     \* <<>> until the result is printed / returned, then <<result>>
    name,       \* face_det_rec.py's module-level variable `name`
    calls,      \* which collaborators the latest inner-loop iteration called
    mainpc,     \* server main program: "start", "run" (inside s.run()), "close", "exit"
    sess,       \* zerorpc_obj.sess: "none", "open", "closed"
    acceptor,   \* zerorpc's acceptor greenlet: "none", "running", "killed"
    sigs,       \* SIGINT/SIGTERM delivered so far
    pending,    \* delivered signals whose handler s.stop has not run yet
    task,       \* per call: "unsent", "sent", "spawned", "running", "returned"
    running,    \* the calls whose detect_faces is executing
    srvIn,      \* per call: test_image_paths
    srvI,       \* per call: index of the record under detect_faces' outer loop
    srvOut,     \* per call: objects_classified_persons
    response,   \* per call: <<>> until detect_faces returns, then <<result>>
    closes,     \* how many times close_sess has run
    caught,     \* the calls that were accepted and unfinished when a signal came
    runOnClosed \* whether sess.run was ever called on a session that is not open

resVars  == <<rMatches, rOutcome>>
orchVars == <<path, objects_detected, pc, i, li, json_obj, out, stdout, name, calls>>
srvVars  == <<mainpc, sess, acceptor, sigs, pending, task, running, srvIn, srvI,
              srvOut, response, closes, caught, runOnClosed>>
vars     == <<data, resVars, orchVars, srvVars>>

----------------------------------------------------------------------------
(* Values *)

\* Python None, serialised as JSON null.
None == "<null>"

\* The resolver's "no gallery entry matched" outcome.
Unknown == "Unknown"

\* Identity labels of the gallery.
GalleryLabels == {"Alice", "Bob"}

\* Largest gallery of the resolver harness.
MaxGallery == 6

\* NAME_THRESHOLD = 0.20, held in hundredths so that the comparison
\* max_value > value + NAME_THRESHOLD * n is the integer comparison
\* 100 * max_value > 100 * value + 20 * n.
NAME_THRESHOLD == 20

\* FOCUS_MEASURE_THRESHOLD of face_det_rec.py.
FOCUS_MEASURE_THRESHOLD == 1000

\* MIN_PROBA = config['minProba'], in hundredths.
MIN_PROBA == 50

\* LABEL_MAP = config['labelMap'].
LABEL_MAP == <<"Alice", "Bob", "Carol">>

\* Width and height (img.shape) of the readable image.
ImgW == 2
ImgH == 2

\* Largest batch, most labels per image, most faces located in one region,
\* and largest gallery of an orchestrated run.
MaxImages == 2
MaxLabels == 1
MaxFaces == 1
MaxNames == 2

\* Most labels of the single image of a one-image run.
BoxLabels == 1

\* Remote calls made to the server, and signals sent to it.
MaxCalls == 2
MaxSignals == 2

Range(s) == {s[k] : k \in DOMAIN s}

SeqsUpTo(S, lo, hi) == UNION {[1..n -> S] : n \in lo..hi}

----------------------------------------------------------------------------
(* Embedding-voting resolver: face_det_rec.py lines 65-68 and 143-180 *)

\* name_count = {n: 0 for n in data['names']}; name_count[name] += 1
name_count(names) ==
    [n \in Range(names) |-> Cardinality({k \in DOMAIN names : names[k] = n})]

\* matchedIdxs = [i for (i, b) in enumerate(matches) if b]
matchedIdxs(matches) == {k \in DOMAIN matches : matches[k]}

\* The keys of {n: 0 for n in data['names']} in dict iteration order: each
\* label once, in the order of its first gallery entry.
RECURSIVE DictKeys(_)
DictKeys(names) ==
    IF names = <<>> THEN <<>>
    ELSE LET front == DictKeys(SubSeq(names, 1, Len(names) - 1))
             n     == names[Len(names)]
         IN  IF n \in Range(front) THEN front ELSE Append(front, n)

\* counts = {n: 0 ...}; for i in matchedIdxs: counts[name] = counts.get(name, 0) + 1
counts(names, matches) ==
    [n \in Range(names) |->
        Cardinality({k \in matchedIdxs(matches) : names[k] = n})]

\* max_value = max(counts.values())
max_value(c) == CHOOSE v \in Range(c) : \A n \in DOMAIN c : c[n] <= v

\* max_name = max(counts, key=counts.get): the first key, in dict order, whose
\* count is the maximum.
max_name(names, c) ==
    LET keys == DictKeys(names)
        k    == CHOOSE k \in DOMAIN keys :
                    /\ c[keys[k]] = max_value(c)
                    /\ \A j \in 1..(k - 1) : c[keys[j]] < max_value(c)
    IN  keys[k]

\* A margin scaled by the competing label's population instead of max_name's.
PassesThresholdOfOther(names, c, other) ==
    100 * max_value(c) > 100 * c[other] + NAME_THRESHOLD * name_count(names)[other]

\* One element of name_thresholds, for the competing label `other`:
\* max_value > value + NAME_THRESHOLD * name_count[max_name]
PassesThreshold(names, c, other) ==
    100 * max_value(c)
        > 100 * c[other] + NAME_THRESHOLD * name_count(names)[max_name(names, c)]

\* name_thresholds = [... for name, value in counts.items() if name != max_name]
name_thresholds(names, c) ==
    [n \in DOMAIN c \ {max_name(names, c)} |-> PassesThreshold(names, c, n)]

\* A resolver that leaves the initial 'Unknown' in place when the margin fails.
ResolveKeepingUnknown(names, matches) ==
    IF TRUE \notin Range(matches) THEN Unknown
    ELSE LET c == counts(names, matches)
             t == name_thresholds(names, c)
         IN  IF \A n \in DOMAIN t : t[n] THEN max_name(names, c) ELSE Unknown

\* The body of `for encoding in encodings`, from `name = 'Unknown'` on.
Resolve(names, matches) ==
    IF TRUE \notin Range(matches) THEN Unknown
    ELSE LET c == counts(names, matches)
             t == name_thresholds(names, c)
         IN  IF \A n \in DOMAIN t : t[n] THEN max_name(names, c) ELSE None

\* Galleries of at most hi entries.
Galleries(hi) == SeqsUpTo(GalleryLabels, 1, hi)

\* What compare_faces can return against the gallery: one boolean per entry.
MatchVectors(names) == [DOMAIN names -> BOOLEAN]

----------------------------------------------------------------------------
(* Regions of interest: img[y2:y1, x1:x2] and roi.size, both programs *)

\* A slice bound k on an axis of length n, as Python slicing reads it: a
\* negative bound counts from the end, and the result is cut to 0..n.
SliceBound(k, n) ==
    IF k < 0 THEN (IF k + n < 0 THEN 0 ELSE k + n)
    ELSE (IF k > n THEN n ELSE k)

\* Number of indices selected by [lo:hi] on an axis of length n.
SliceLen(lo, hi, n) ==
    LET a == SliceBound(lo, n)
        b == SliceBound(hi, n)
    IN  IF b > a THEN b - a ELSE 0

\* roi = img[y2:y1, x1:x2, :]; roi.size (three channels).
RoiSize(box) ==
    SliceLen(box.ymin, box.ymax, ImgH) * SliceLen(box.xmin, box.xmax, ImgW) * 3

\* if roi.size == 0
RoiIsEmpty(box) == RoiSize(box) = 0

\* cv2.imread(path): the file "ok.jpg" decodes to an ImgH x ImgW image, the
\* file "bad.jpg" does not decode (imread returns None).
Readable(image) == image = "ok.jpg"

\* label[key] = v
SetField(label, key, v) ==
    [k \in DOMAIN label \cup {key} |-> IF k = key THEN v ELSE label[k]]

\* The record of collaborator calls of an iteration that called none.
NoCalls ==
    [imread |-> FALSE, detect |-> FALSE, faces |-> 0, fm |-> <<>>,
     encode |-> FALSE, encodings |-> <<>>, resolves |-> 0,
     infer |-> FALSE, predictions |-> <<>>]

----------------------------------------------------------------------------
(* Embedding path: face_det_rec.py lines 83-190 *)

\* A gate that also rejects a score equal to the floor.
IsBlurryInclusive(fm) == fm <= FOCUS_MEASURE_THRESHOLD

\* if fm < FOCUS_MEASURE_THRESHOLD
IsBlurry(fm) == fm < FOCUS_MEASURE_THRESHOLD

\* `for encoding in encodings:` run over the whole list, starting from the
\* value nm of `name`; each iteration assigns `name` afresh.
RECURSIVE NameAfterEncodings(_, _, _)
NameAfterEncodings(nm, names, encodings) ==
    IF encodings = <<>> THEN nm
    ELSE NameAfterEncodings(Resolve(names, Head(encodings)), names, Tail(encodings))

\* One iteration of `for label in json_obj['labels']` for a person label, with
\* the collaborators' results env: the faces located, the focus measure and
\* the compare_faces vector of each encoding.
EmbIdentify(label, nm, names, env) ==
    IF RoiIsEmpty(label.box)
    THEN [face |-> None, name |-> nm, calls |-> NoCalls]
    ELSE IF env.nfaces = 0
    THEN [face |-> None, name |-> nm,
          calls |-> [NoCalls EXCEPT !.detect = TRUE]]
    ELSE IF IsBlurry(env.fm)
    THEN [face |-> None, name |-> None,
          calls |-> [NoCalls EXCEPT !.detect = TRUE, !.faces = env.nfaces,
                                    !.fm = <<env.fm>>]]
    ELSE LET after == NameAfterEncodings(nm, names, env.encodings)
         IN  [face |-> after, name |-> after,
              calls |-> [NoCalls EXCEPT !.detect = TRUE, !.faces = env.nfaces,
                                        !.fm = <<env.fm>>, !.encode = TRUE,
                                        !.encodings = env.encodings,
                                        !.resolves = Len(env.encodings)]]

\* Scores the focus measure can take around the floor.
FocusMeasures ==
    {FOCUS_MEASURE_THRESHOLD - 200, FOCUS_MEASURE_THRESHOLD,
     FOCUS_MEASURE_THRESHOLD + 1}

\* What face_locations, variance_of_laplacian, face_encodings and
\* compare_faces return for one region: the number of faces located, the
\* focus measure of the first face (read only when a face is located) and one
\* compare_faces vector per encoding (computed only for a sharp face).
\* face_recognition computes one encoding per located face; with `opaque` the
\* length of the list face_encodings returns is left open.
EmbEnvs(names, opaque) ==
    {[nfaces |-> 0, fm |-> FOCUS_MEASURE_THRESHOLD, encodings |-> <<>>]}
    \cup {[nfaces |-> n, fm |-> f, encodings |-> <<>>] :
             n \in 1..MaxFaces,
             f \in {m \in FocusMeasures : m < FOCUS_MEASURE_THRESHOLD}}
    \cup UNION {[nfaces : {n},
                 fm : {m \in FocusMeasures : m >= FOCUS_MEASURE_THRESHOLD},
                 encodings : IF opaque
                             THEN SeqsUpTo(MatchVectors(names), 0, MaxFaces)
                             ELSE [1..n -> MatchVectors(names)]] :
                n \in 1..MaxFaces}

\* The collaborators' results for one label: none are asked for an empty region.
EmbEnvsOf(label, names, opaque) ==
    IF RoiIsEmpty(label.box)
    THEN {[nfaces |-> 0, fm |-> FOCUS_MEASURE_THRESHOLD, encodings |-> <<>>]}
    ELSE EmbEnvs(names, opaque)

\* for obj in objects_detected: json.loads, cv2.imread, img.shape.  An
\* undecodable file makes imread return None and img.shape raise.
EmbNextImage ==
    /\ path = "emb" /\ pc = "loop" /\ i <= Len(objects_detected)
    /\ IF Readable(objects_detected[i].image)
       THEN /\ json_obj' = objects_detected[i]
            /\ li' = 1
            /\ pc' = "labels"
       ELSE /\ pc' = "crashed"
            /\ UNCHANGED <<json_obj, li>>
    /\ calls' = NoCalls
    /\ UNCHANGED <<srvVars, data, resVars, path, objects_detected, i, out, stdout, name>>

\* One iteration of `for label in json_obj['labels']`.
EmbLabel(opaque) ==
    /\ path = "emb" /\ pc = "labels" /\ li <= Len(json_obj.labels)
    /\ LET label == json_obj.labels[li]
       IN  IF label.name = "person"
           THEN \E env \in EmbEnvsOf(label, data, opaque) :
                    LET r == EmbIdentify(label, name, data, env)
                    IN  /\ json_obj' = [json_obj EXCEPT
                                !.labels[li] = SetField(label, "face", r.face)]
                        /\ name' = r.name
                        /\ calls' = r.calls
           ELSE /\ calls' = NoCalls
                /\ UNCHANGED <<json_obj, name>>
    /\ li' = li + 1
    /\ UNCHANGED <<srvVars, data, resVars, path, objects_detected, pc, i, out, stdout>>

\* objects_detected_faces.append(json_obj)
EmbAppend ==
    /\ path = "emb" /\ pc = "labels" /\ li > Len(json_obj.labels)
    /\ out' = Append(out, json_obj)
    /\ i' = i + 1
    /\ pc' = "loop"
    /\ UNCHANGED <<srvVars, data, resVars, path, objects_detected, li, json_obj, stdout,
                   name, calls>>

\* print(json.dumps(objects_detected_faces))
EmbPrint ==
    /\ path = "emb" /\ pc = "loop" /\ i > Len(objects_detected)
    /\ stdout' = <<out>>
    /\ pc' = "done"
    /\ UNCHANGED <<srvVars, data, resVars, path, objects_detected, i, li, json_obj, out,
                   name, calls>>

----------------------------------------------------------------------------
(* Classifier path: DetectRPC.detect_faces, person_classifier_server.py 88-160 *)

\* An acceptance test that rejects a probability equal to the minimum.
AcceptsStrict(proba) == proba > MIN_PROBA

\* if proba >= MIN_PROBA
Accepts(proba) == proba >= MIN_PROBA

\* j = np.argmax(predictions): the first index holding the maximum.
ArgMax(predictions) ==
    CHOOSE j \in DOMAIN predictions :
        /\ \A k \in DOMAIN predictions : predictions[k] <= predictions[j]
        /\ \A k \in 1..(j - 1) : predictions[k] < predictions[j]

\* One iteration of `for label in obj['labels']` for a person label of the
\* record obj, with predictions the vector sess.run returns.
ClsIdentify(obj, label, predictions) ==
    IF ~Readable(obj.image)
    THEN [label |-> SetField(label, "face", None),
          calls |-> [NoCalls EXCEPT !.imread = TRUE]]
    ELSE IF RoiIsEmpty(label.box)
    THEN [label |-> SetField(label, "face", None),
          calls |-> [NoCalls EXCEPT !.imread = TRUE]]
    ELSE LET j      == ArgMax(predictions)
             proba  == predictions[j]
             person == LABEL_MAP[j]
             nm     == IF Accepts(proba) THEN person ELSE None
         IN  [label |-> SetField(SetField(label, "face", nm), "faceProba", proba),
              calls |-> [NoCalls EXCEPT !.imread = TRUE, !.infer = TRUE,
                                        !.predictions = predictions]]

\* Soft-max vectors (in hundredths) the session returns.
Predictions ==
    {<<42, 30, 28>>, <<25, 50, 25>>, <<50, 50, 0>>, <<10, 20, 70>>}

\* for obj in test_image_paths
ClsNextImage ==
    /\ path = "cls" /\ pc = "loop" /\ i <= Len(objects_detected)
    /\ json_obj' = objects_detected[i]
    /\ li' = 1
    /\ pc' = "labels"
    /\ calls' = NoCalls
    /\ UNCHANGED <<srvVars, data, resVars, path, objects_detected, i, out, stdout, name>>

\* One iteration of `for label in obj['labels']`.
ClsLabel ==
    /\ path = "cls" /\ pc = "labels" /\ li <= Len(json_obj.labels)
    /\ LET label == json_obj.labels[li]
       IN  IF label.name = "person"
           THEN \E predictions \in Predictions :
                    LET r == ClsIdentify(json_obj, label, predictions)
                    IN  /\ json_obj' = [json_obj EXCEPT !.labels[li] = r.label]
                        /\ calls' = r.calls
           ELSE /\ calls' = NoCalls
                /\ UNCHANGED json_obj
    /\ li' = li + 1
    /\ UNCHANGED <<srvVars, data, resVars, path, objects_detected, pc, i, out, stdout, name>>

\* objects_classified_persons.append(obj)
ClsAppend ==
    /\ path = "cls" /\ pc = "labels" /\ li > Len(json_obj.labels)
    /\ out' = Append(out, json_obj)
    /\ i' = i + 1
    /\ pc' = "loop"
    /\ UNCHANGED <<srvVars, data, resVars, path, objects_detected, li, json_obj, stdout,
                   name, calls>>

\* return(json.dumps(objects_classified_persons))
ClsReturn ==
    /\ path = "cls" /\ pc = "loop" /\ i > Len(objects_detected)
    /\ stdout' = <<out>>
    /\ pc' = "done"
    /\ UNCHANGED <<srvVars, data, resVars, path, objects_detected, i, li, json_obj, out,
                   name, calls>>

----------------------------------------------------------------------------
(* Server shell: person_classifier_server.py lines 79-86 and 162-174, run by
   zerorpc.Server on gevent's cooperative scheduler *)

Calls == 1..MaxCalls

\* The resolver harness is not running.
ResolverIdle == rMatches = <<>> /\ rOutcome = "idle"

\* The orchestrated programs are not running.
OrchIdle ==
    /\ path = "none" /\ objects_detected = <<>> /\ pc = "idle"
    /\ i = 0 /\ li = 0 /\ json_obj = <<>> /\ out = <<>> /\ stdout = <<>>
    /\ name = None /\ calls = NoCalls


\* The server program is not running.
SrvIdle ==
    /\ mainpc = "idle" /\ sess = "none" /\ acceptor = "none"
    /\ sigs = 0 /\ pending = 0 /\ task = <<>> /\ running = {}
    /\ srvIn = <<>> /\ srvI = <<>> /\ srvOut = <<>> /\ response = <<>>
    /\ closes = 0 /\ caught = {} /\ runOnClosed = FALSE

\* A scheduler that hands control to a greenlet at any time.
HubSwitchesAnyTime == TRUE

\* gevent switches to another greenlet only when the running one yields or
\* ends; detect_faces never yields, so the hub has control only while no
\* detect_faces is executing.
HubHasControl == running = {}

\* A join that does not wait for the task pool.
JoinSkipped == TRUE

\* s.run()'s `finally: self._task_pool.join()`: every accepted call has finished.
JoinDone == \A c \in Calls : task[c] \notin {"spawned", "running"}

\* detect_faces' loop body for one record: every label of obj, with the vector
\* sess.run returns for each.
AnnotateObj(obj, predictions) ==
    [obj EXCEPT !.labels =
        [k \in DOMAIN obj.labels |->
            IF obj.labels[k].name = "person"
            THEN ClsIdentify(obj, obj.labels[k], predictions[k]).label
            ELSE obj.labels[k]]]

\* Whether that loop body calls sess.run.
InfersOn(obj, predictions) ==
    \E k \in DOMAIN obj.labels :
        /\ obj.labels[k].name = "person"
        /\ ClsIdentify(obj, obj.labels[k], predictions[k]).calls.infer

\* Lines 163-172: DetectRPC() opens the session, the server is bound, s.stop is
\* registered for SIGINT and SIGTERM, and s.run() spawns the acceptor.
StartServer ==
    /\ mainpc = "start"
    /\ mainpc' = "run"
    /\ sess' = "open"
    /\ acceptor' = "running"
    /\ UNCHANGED <<sigs, pending, task, running, srvIn, srvI, srvOut, response,
                   closes, caught, runOnClosed>>
    /\ UNCHANGED <<data, resVars, orchVars>>

\* A client sends the request of call c; it waits in the transport.
Send(c) ==
    /\ task[c] = "unsent"
    /\ task' = [task EXCEPT ![c] = "sent"]
    /\ UNCHANGED <<mainpc, sess, acceptor, sigs, pending, running, srvIn, srvI,
                   srvOut, response, closes, caught, runOnClosed>>
    /\ UNCHANGED <<data, resVars, orchVars>>

\* The acceptor greenlet receives the request and spawns its task.
Accept(c) ==
    /\ acceptor = "running" /\ HubHasControl
    /\ task[c] = "sent"
    /\ task' = [task EXCEPT ![c] = "spawned"]
    /\ UNCHANGED <<mainpc, sess, acceptor, sigs, pending, running, srvIn, srvI,
                   srvOut, response, closes, caught, runOnClosed>>
    /\ UNCHANGED <<data, resVars, orchVars>>

\* The hub switches to the task: detect_faces starts.
Begin(c) ==
    /\ mainpc = "run" /\ HubHasControl
    /\ task[c] = "spawned"
    /\ task' = [task EXCEPT ![c] = "running"]
    /\ running' = running \cup {c}
    /\ srvOut' = [srvOut EXCEPT ![c] = <<>>]
    /\ srvI' = [srvI EXCEPT ![c] = 1]
    /\ UNCHANGED <<mainpc, sess, acceptor, sigs, pending, srvIn, response,
                   closes, caught, runOnClosed>>
    /\ UNCHANGED <<data, resVars, orchVars>>

\* One iteration of `for obj in test_image_paths` of call c.
Step(c) ==
    /\ c \in running /\ srvI[c] <= Len(srvIn[c])
    /\ LET obj == srvIn[c][srvI[c]]
       IN  \E predictions \in [DOMAIN obj.labels -> Predictions] :
               /\ srvOut' = [srvOut EXCEPT
                       ![c] = Append(@, AnnotateObj(obj, predictions))]
               /\ runOnClosed' =
                       (runOnClosed \/ (InfersOn(obj, predictions) /\ sess # "open"))
    /\ srvI' = [srvI EXCEPT ![c] = @ + 1]
    /\ UNCHANGED <<mainpc, sess, acceptor, sigs, pending, task, running, srvIn,
                   response, closes, caught>>
    /\ UNCHANGED <<data, resVars, orchVars>>

\* return(json.dumps(objects_classified_persons)): the task ends.
Return(c) ==
    /\ c \in running /\ srvI[c] > Len(srvIn[c])
    /\ response' = [response EXCEPT ![c] = <<srvOut[c]>>]
    /\ task' = [task EXCEPT ![c] = "returned"]
    /\ running' = running \ {c}
    /\ UNCHANGED <<mainpc, sess, acceptor, sigs, pending, srvIn, srvI, srvOut,
                   closes, caught, runOnClosed>>
    /\ UNCHANGED <<data, resVars, orchVars>>

\* The operating system delivers SIGINT or SIGTERM once s.stop is registered.
Signal ==
    /\ mainpc \in {"run", "close"} /\ sigs < MaxSignals
    /\ sigs' = sigs + 1
    /\ pending' = pending + 1
    /\ caught' = caught \cup {c \in Calls : task[c] \in {"spawned", "running"}}
    /\ UNCHANGED <<mainpc, sess, acceptor, task, running, srvIn, srvI, srvOut,
                   response, closes, runOnClosed>>
    /\ UNCHANGED <<data, resVars, orchVars>>

\* The hub runs the handler s.stop: the acceptor greenlet is killed.
StopHandler ==
    /\ mainpc = "run" /\ HubHasControl
    /\ pending > 0
    /\ pending' = pending - 1
    /\ acceptor' = "killed"
    /\ UNCHANGED <<mainpc, sess, sigs, task, running, srvIn, srvI, srvOut,
                   response, closes, caught, runOnClosed>>
    /\ UNCHANGED <<data, resVars, orchVars>>

\* s.run() returns: the acceptor has ended and the task pool is joined.
RunReturns ==
    /\ mainpc = "run" /\ HubHasControl
    /\ acceptor = "killed" /\ JoinDone
    /\ mainpc' = "close"
    /\ UNCHANGED <<sess, acceptor, sigs, pending, task, running, srvIn, srvI,
                   srvOut, response, closes, caught, runOnClosed>>
    /\ UNCHANGED <<data, resVars, orchVars>>

\* zerorpc_obj.close_sess(), then the program ends.
CloseSess ==
    /\ mainpc = "close"
    /\ sess' = "closed"
    /\ closes' = closes + 1
    /\ mainpc' = "exit"
    /\ UNCHANGED <<acceptor, sigs, pending, task, running, srvIn, srvI, srvOut,
                   response, caught, runOnClosed>>
    /\ UNCHANGED <<data, resVars, orchVars>>

\* Requests of the calls: one record with one person box, readable or not.
SrvBatches ==
    {<<[image |-> im,
        labels |-> <<[name |-> "person",
                      box |-> [xmin |-> 0, ymin |-> 0, xmax |-> ImgW, ymax |-> ImgH]]>>]>> :
        im \in {"ok.jpg", "bad.jpg"}}

InitSrv ==
    /\ mainpc = "start" /\ sess = "none" /\ acceptor = "none"
    /\ sigs = 0 /\ pending = 0
    /\ task = [c \in Calls |-> "unsent"]
    /\ running = {}
    /\ srvIn \in [Calls -> SrvBatches]
    /\ srvI = [c \in Calls |-> 1]
    /\ srvOut = [c \in Calls |-> <<>>]
    /\ response = [c \in Calls |-> <<>>]
    /\ closes = 0 /\ caught = {} /\ runOnClosed = FALSE
    /\ data = <<>>
    /\ ResolverIdle
    /\ OrchIdle

NextSrv ==
    \/ StartServer
    \/ \E c \in Calls : Send(c)
    \/ \E c \in Calls : Accept(c)
    \/ \E c \in Calls : Begin(c)
    \/ \E c \in Calls : Step(c)
    \/ \E c \in Calls : Return(c)
    \/ Signal
    \/ StopHandler
    \/ RunReturns
    \/ CloseSess

SpecSrv == InitSrv /\ [][NextSrv]_vars

\* gevent's loop runs every ready greenlet and callback: a started call runs
\* to its end, an accepted call is started, the signal handler runs, and the
\* main program goes on once s.run() can return.
SrvFairness ==
    /\ \A c \in Calls : WF_vars(Begin(c)) /\ WF_vars(Step(c)) /\ WF_vars(Return(c))
    /\ WF_vars(StopHandler)
    /\ WF_vars(RunReturns)
    /\ WF_vars(CloseSess)

SpecSrvFair == SpecSrv /\ SrvFairness

----------------------------------------------------------------------------
(* Batches and the orchestrated runs *)

\* Person boxes of an ImgW x ImgH image: the whole image, a box with
\* xmin = xmax, a box wholly left of the image, a box wholly right of it.
Boxes ==
    {[xmin |-> 0, ymin |-> 0, xmax |-> ImgW, ymax |-> ImgH],
     [xmin |-> 1, ymin |-> 0, xmax |-> 1, ymax |-> ImgH],
     [xmin |-> -2, ymin |-> 0, xmax |-> -1, ymax |-> ImgH],
     [xmin |-> ImgW, ymin |-> 0, xmax |-> ImgW + 1, ymax |-> ImgH]}

\* Labels of a detection: a person with any of the boxes, and another object.
InputLabels ==
    [name : {"person"}, box : Boxes]
        \cup {[name |-> "car", box |-> [xmin |-> 0, ymin |-> 0, xmax |-> 1, ymax |-> 1]]}

ImageRecords(maxLabels) ==
    [image : {"ok.jpg", "bad.jpg"}, labels : SeqsUpTo(InputLabels, 0, maxLabels)]

Batches(maxImages, maxLabels) == SeqsUpTo(ImageRecords(maxLabels), 1, maxImages)

\* The state at the top of the outer loop, before the first image.  On the
\* embedding path `name` holds the last gallery label, left by the
\* name_count loop of lines 66-68.
InitWith(batches) ==
    /\ path \in {"emb", "cls"}
    /\ data \in (IF path = "emb" THEN Galleries(MaxNames) ELSE {<<>>})
    /\ objects_detected \in batches
    /\ pc = "loop" /\ i = 1 /\ li = 1
    /\ json_obj = <<>> /\ out = <<>> /\ stdout = <<>>
    /\ name = (IF path = "emb" THEN data[Len(data)] ELSE None)
    /\ calls = NoCalls
    /\ ResolverIdle
    /\ SrvIdle

Init == InitWith(Batches(MaxImages, MaxLabels))

Next ==
    \/ EmbNextImage
    \/ EmbLabel(FALSE)
    \/ EmbAppend
    \/ EmbPrint
    \/ ClsNextImage
    \/ ClsLabel
    \/ ClsAppend
    \/ ClsReturn

Spec == Init /\ [][Next]_vars

\* Runs over one image, for the claims about a single box and its neighbour.
InitBox == InitWith(Batches(1, BoxLabels))

SpecBox == InitBox /\ [][Next]_vars

\* The embedding path alone, with the length of the list face_encodings
\* returns left open.
InitOpaque == InitBox /\ path = "emb"

NextOpaque ==
    \/ EmbNextImage
    \/ EmbLabel(TRUE)
    \/ EmbAppend
    \/ EmbPrint

SpecOpaque == InitOpaque /\ [][NextOpaque]_vars

----------------------------------------------------------------------------
(* Resolver harness: every gallery and every match vector within MaxGallery *)

InitResolver ==
    /\ data \in Galleries(MaxGallery)
    /\ rMatches \in MatchVectors(data)
    /\ rOutcome = "pending"
    /\ OrchIdle
    /\ SrvIdle

ApplyResolve ==
    /\ rOutcome = "pending"
    /\ rOutcome' = Resolve(data, rMatches)
    /\ UNCHANGED <<data, rMatches, orchVars, srvVars>>

NextResolver == ApplyResolve

SpecResolver == InitResolver /\ [][NextResolver]_vars

----------------------------------------------------------------------------
(* Claims about the resolver, stated over the harness *)

\* Votes of label L: matched gallery entries bearing L.
Votes(L) == Cardinality({k \in DOMAIN data : data[k] = L /\ rMatches[k]})

\* Gallery population of label L.
Population(L) == Cardinality({k \in DOMAIN data : data[k] = L})

Resolved == rOutcome # "pending"

SomeMatch == \E k \in DOMAIN data : rMatches[k]

TopVoted == {M \in Range(data) : \A L \in Range(data) : Votes(L) <= Votes(M)}

\* C1 as stated: with at least one match, the outcome is the top-voted label
\* exactly when it beats every other gallery label L by more than
\* margin * (population of L); otherwise the outcome is null.
C1_MarginOfCompetitor ==
    (Resolved /\ SomeMatch) =>
        \A M \in TopVoted :
            IF \A L \in Range(data) \ {M} :
                   100 * Votes(M) > 100 * Votes(L) + NAME_THRESHOLD * Population(L)
            THEN rOutcome = M
            ELSE rOutcome = None

\* C1 amended: with at least one match, the outcome is the top-voted label
\* max_name exactly when it beats every other gallery label L by more than
\* margin * (population of max_name itself); otherwise the outcome is null.
C1_MarginOfMaxName ==
    (Resolved /\ SomeMatch) =>
        \A M \in TopVoted :
            IF \A L \in Range(data) \ {M} :
                   100 * Votes(M) > 100 * Votes(L) + NAME_THRESHOLD * Population(M)
            THEN rOutcome = M
            ELSE rOutcome = None

\* A label is accepted although a competing label also collected votes.
C1_Witness ==
    /\ Resolved
    /\ rOutcome \in Range(data)
    /\ \E L \in Range(data) \ {rOutcome} : Votes(L) > 0

\* C2: the outcome is "Unknown" exactly when no gallery entry matched; a
\* matched face gives null or a gallery label, never "Unknown".
C2_UnknownIffNoMatch ==
    Resolved =>
        /\ (rOutcome = Unknown) <=> ~SomeMatch
        /\ SomeMatch => rOutcome \in Range(data) \cup {None}

\* A matched face whose votes fail the margin: null, not "Unknown".
C2_Witness == Resolved /\ SomeMatch /\ rOutcome = None

----------------------------------------------------------------------------
(* Claims about the orchestrated runs *)

\* The inner loop has handled a label of the current record: the latest one.
HasLast == json_obj # <<>> /\ li > 1

LastLabel == json_obj.labels[li - 1]

LastIsPerson == HasLast /\ LastLabel.name = "person"

\* The box does not meet the image [0, ImgW) x [0, ImgH).
Outside(box) ==
    \/ box.xmax <= 0 \/ box.xmin >= ImgW
    \/ box.ymax <= 0 \/ box.ymin >= ImgH

Degenerate(box) == box.xmin = box.xmax \/ box.ymin = box.ymax

\* C3: on both paths a person box that lies wholly outside the image (negative
\* coordinates included) or has xmin = xmax or ymin = ymax gets face = null,
\* no face detection and no inference is run for it, and nothing crashes.
C3_OutsideOrDegenerateRejected ==
    (LastIsPerson /\ Readable(json_obj.image)
        /\ (Outside(LastLabel.box) \/ Degenerate(LastLabel.box))) =>
        /\ pc # "crashed"
        /\ "face" \in DOMAIN LastLabel /\ LastLabel.face = None
        /\ ~calls.detect /\ ~calls.encode /\ ~calls.infer

\* The labels of record k of the batch that are person boxes.
PersonsOf(rec) == {m \in DOMAIN rec.labels : rec.labels[m].name = "person"}

\* C4: on both paths an unreadable image is local: the run never aborts, the
\* result holds every image of the batch, and every person box of an
\* unreadable image has face = null.
C4_UnreadableIsLocal ==
    /\ pc # "crashed"
    /\ pc = "done" =>
        /\ Len(stdout[1]) = Len(objects_detected)
        /\ \A k \in DOMAIN objects_detected :
               ~Readable(objects_detected[k].image) =>
                   \A m \in PersonsOf(stdout[1][k]) :
                       /\ "face" \in DOMAIN stdout[1][k].labels[m]
                       /\ stdout[1][k].labels[m].face = None

\* The largest probability of a prediction vector, and the first index holding it.
TopProba(v) == CHOOSE p \in Range(v) : \A k \in DOMAIN v : v[k] <= p

TopIndex(v) == CHOOSE j \in DOMAIN v :
                   v[j] = TopProba(v) /\ \A k \in DOMAIN v : v[k] = TopProba(v) => j <= k

\* The crop img[ymin:ymax, xmin:xmax] holds at least one pixel.
CropNonEmpty(box) ==
    SliceLen(box.ymin, box.ymax, ImgH) > 0 /\ SliceLen(box.xmin, box.xmax, ImgW) > 0

\* C5: on the classifier path, a person box of a readable image with a
\* non-empty crop gets faceProba = the arg-max probability p, accepted or not,
\* and face = LABEL_MAP[argmax] if p >= MIN_PROBA (equality accepted), else
\* null; a person box of an unreadable image or with an empty crop gets
\* face = null and no faceProba.
C5_ClassifierDecision ==
    (path = "cls" /\ LastIsPerson) =>
        IF Readable(json_obj.image) /\ CropNonEmpty(LastLabel.box)
        THEN /\ calls.infer
             /\ DOMAIN LastLabel = {"name", "box", "face", "faceProba"}
             /\ LastLabel.faceProba = TopProba(calls.predictions)
             /\ LastLabel.face =
                    (IF TopProba(calls.predictions) >= MIN_PROBA
                     THEN LABEL_MAP[TopIndex(calls.predictions)] ELSE None)
        ELSE /\ ~calls.infer
             /\ DOMAIN LastLabel = {"name", "box", "face"}
             /\ LastLabel.face = None

\* A probability below the minimum is still reported, with face = null, and a
\* probability equal to the minimum is accepted.
C5_Witness ==
    /\ path = "cls" /\ LastIsPerson
    /\ "faceProba" \in DOMAIN LastLabel
    /\ \/ LastLabel.faceProba < MIN_PROBA /\ LastLabel.face = None
       \/ LastLabel.faceProba = MIN_PROBA /\ LastLabel.face \in Range(LABEL_MAP)

\* Every label of o is the label of inp plus, on a person box only, face and
\* (classifier path only) faceProba.
FrameOfLabel(o, inp) ==
    /\ o.name = inp.name /\ o.box = inp.box
    /\ IF inp.name = "person"
       THEN /\ {"name", "box", "face"} \subseteq DOMAIN o
            /\ DOMAIN o \subseteq
                 (IF path = "cls" THEN {"name", "box", "face", "faceProba"}
                                  ELSE {"name", "box", "face"})
       ELSE o = inp

FrameOfBatch(o, inp) ==
    /\ Len(o) = Len(inp)
    /\ \A k \in DOMAIN inp :
           /\ o[k].image = inp[k].image
           /\ DOMAIN o[k] = {"image", "labels"}
           /\ Len(o[k].labels) = Len(inp[k].labels)
           /\ \A m \in DOMAIN inp[k].labels :
                  FrameOfLabel(o[k].labels[m], inp[k].labels[m])

\* C7: on both paths every input batch gets an output that holds the input
\* images in order, each with its boxes in order, changed only by face (and
\* faceProba on the classifier path) on the person boxes.
C7_FrameOfEveryBatch ==
    /\ pc # "crashed"
    /\ pc = "done" => FrameOfBatch(stdout[1], objects_detected)

\* The frame part of C7 alone: whenever a result is printed or returned, it is
\* the input batch changed only by face / faceProba on the person boxes.
FrameOfPrintedResult ==
    pc = "done" => FrameOfBatch(stdout[1], objects_detected)

\* C8: on the embedding path, for a person box in which a face is located: a
\* focus measure below FOCUS_MEASURE_THRESHOLD means no embedding is computed,
\* the resolver is not run and face = null; a measure at or above it means
\* the embedding is computed and the resolver's outcome is written.
C8_BlurGate ==
    (path = "emb" /\ LastIsPerson /\ calls.faces > 0) =>
        IF calls.fm[1] < FOCUS_MEASURE_THRESHOLD
        THEN /\ ~calls.encode /\ calls.resolves = 0
             /\ LastLabel.face = None
        ELSE /\ calls.encode /\ calls.resolves > 0
             /\ LastLabel.face =
                    Resolve(data, calls.encodings[Len(calls.encodings)])

\* A face whose focus measure equals the floor is resolved to a gallery label.
C8_Witness ==
    /\ path = "emb" /\ LastIsPerson /\ calls.faces > 0
    /\ calls.fm[1] = FOCUS_MEASURE_THRESHOLD
    /\ calls.encode
    /\ LastLabel.face \in Range(data)

\* The outcome of a box as a function of its own region and the gallery: null
\* for an empty region, no face, a blurred face or an empty encoding list, and
\* otherwise the resolver's outcome for the region's (last) face.
OwnOutcome ==
    IF ~calls.encode \/ calls.encodings = <<>> THEN None
    ELSE Resolve(data, calls.encodings[Len(calls.encodings)])

\* C9: on the embedding path the face written to a person box depends only on
\* the box's own region and the gallery, never on earlier boxes or gallery
\* loading; an empty encoding list gives null.
C9_OwnRegionOnly ==
    (path = "emb" /\ LastIsPerson) =>
        /\ "face" \in DOMAIN LastLabel
        /\ LastLabel.face = OwnOutcome

----------------------------------------------------------------------------
(* Claims about the server shell *)

Phase ==
    CASE mainpc = "start" -> "Starting"
      [] mainpc = "run" /\ acceptor = "running" -> "Serving"
      [] mainpc = "run" /\ acceptor # "running" -> "Stopping"
      [] mainpc = "close" -> "Stopping"
      [] OTHER -> "Stopped"

PhaseOrder ==
    \/ Phase' = Phase
    \/ <<Phase, Phase'>> \in {<<"Starting", "Serving">>, <<"Serving", "Stopping">>,
                              <<"Stopping", "Stopped">>}

\* Once the server is stopping, no request moves from the transport to a task.
NoAcceptOnceStopping ==
    Phase \in {"Stopping", "Stopped"} =>
        \A c \in Calls : task'[c] = "spawned" => task[c] = "spawned"

\* The session is closed only once every accepted call has returned its
\* result, the calls in flight when a signal came included; it is closed once
\* and stays closed; sess.run never ran on a session that is not open.
DrainedBeforeClose ==
    /\ sess = "closed" =>
          /\ \A c \in Calls : task[c] \in {"unsent", "sent", "returned"}
          /\ \A c \in caught : response[c] # <<>>
          /\ closes = 1
    /\ sess # "closed" => closes = 0
    /\ ~runOnClosed

StripLabel(label) == [k \in DOMAIN label \ {"face", "faceProba"} |-> label[k]]

StripBatch(b) ==
    [k \in DOMAIN b |->
        [b[k] EXCEPT !.labels = [m \in DOMAIN b[k].labels |-> StripLabel(b[k].labels[m])]]]

\* At most one detect_faces executes.
OneAtATime ==
    /\ Cardinality(running) <= 1
    /\ Cardinality({c \in Calls : task[c] = "running"}) <= 1

\* A call starts only while no other call is executing.
StartsAlone ==
    \A c \in Calls :
        (task[c] # "running" /\ task'[c] = "running") =>
            \A d \in Calls \ {c} : task[d] # "running"

\* A response is the annotated batch of its own call.
OwnResponse ==
    \A c \in Calls :
        response[c] # <<>> =>
            /\ StripBatch(response[c][1]) = srvIn[c]
            /\ \A k \in DOMAIN response[c][1] :
                   \A m \in DOMAIN response[c][1][k].labels :
                       "face" \in DOMAIN response[c][1][k].labels[m]

\* C10: in every interleaving of calls at most one detect_faces executes, a
\* call that arrives while another is in flight starts only after that one
\* has returned, and each response holds the annotations of its own batch.
C10_Serialized ==
    /\ []OneAtATime
    /\ [][StartsAlone]_vars
    /\ []OwnResponse

\* A request waits while another call is executing.
C10_Witness ==
    \E c, d \in Calls :
        /\ task[c] = "running"
        /\ task[d] \in {"sent", "spawned"}

====
